---- MODULE Spec2Model ----
(***************************************************************************)
(* A model of auto-circuit's prune-score procedures:                       *)
(*   - circuit_probing_prune_scores   (prune_algos/circuit_probing.py)     *)
(*   - train_same_under_knockout_prune_scores                              *)
(*                     (metrics/completeness_metrics/                      *)
(*                      train_same_under_knockouts.py)                     *)
(* A PruneScores / patch-mask dictionary (module name -> tensor) is        *)
(* flattened to a function over the edges 1..NumEdges.  Real-valued         *)
(* scores and mask logits are abstracted to integers.                      *)
(***************************************************************************)
EXTENDS Integers, Sequences, FiniteSets, TLC

\* ------------------------------------------------------------- bounds
NumEdges == 3
MaxSizes == 2
MaxScore == 1
MaxEpochs == 2
NumBatches == 2
MaxDrift == 1
MaxCircuitSize == 10
MaxKnockouts == 5
NumPairs == 2

\* ---------------------------------------------------- program constants
\* train_same_under_knockouts.py, lines 122 and 130: the saturating logits.
PatchAll == 99
PatchNone == -99
\* Line 92: n_target = int(circuit_size / 5)
TargetDivisor == 5
\* Lines 70-72: init_mask_val = log(p / (1 - p)) with p = 1.0 / 1.2, that is
\* ln 5 = 1.609..., as the nearest integer of the mask abstraction.
init_mask_val == 2

Edges == 1..NumEdges

VARIABLES
    \* circuit_probing_prune_scores
    circuit_sizes, true_edge_count, cp_pc, sorted_circuit_sizes, size_idx,
    prune_scores, selected, trainings,
    \* train_same_under_knockout_prune_scores: arguments and locals
    algo_ps, circuit_size, ko_pc, circuit_threshold, n_target, corrupt_src_outs,
    circ_masks, actual_circuit_size, epoch, batch_i,
    kl_div_term, open_knockouts, reg_term, loss, history,
    completeness_prune_scores,
    \* the model object: its patch masks, its mode flags, its patch source
    masks, modes, patches,
    \* bookkeeping of the run (not program state)
    scope_count, step_no, step_log, pre_force, seen_circuit, seen_model,
    last_optim_loss, nonfinite_at, circ_at_setup,
    \* the mask function of the call, the edge values of a forward pass
    mask_fn, edge_acts,
    \* train_same_under_knockouts: the position in task_prune_scores and the
    \* keys of the results stored so far
    pair_idx, task_completeness_scores,
    \* bookkeeping of the run, continued
    masks_at_exit, optim_steps

cp_vars == <<circuit_sizes, true_edge_count, cp_pc, sorted_circuit_sizes,
             size_idx, prune_scores, selected, trainings>>

ko_args == <<algo_ps, circuit_size>>

ko_setup == <<circuit_threshold, n_target, corrupt_src_outs, circ_masks,
              actual_circuit_size, circ_at_setup>>

ko_loop == <<epoch, batch_i>>

ko_terms == <<kl_div_term, open_knockouts, reg_term, loss>>

ko_model == <<masks, modes, patches>>

ko_ghost == <<scope_count, step_no, step_log, pre_force, seen_circuit,
              seen_model, last_optim_loss, nonfinite_at>>

ko_fwd == <<mask_fn, edge_acts>>

ko_outer == <<pair_idx, task_completeness_scores>>

ko_more == <<ko_fwd, ko_outer, masks_at_exit, optim_steps>>

ko_vars == <<ko_args, ko_pc, ko_setup, ko_loop, ko_terms, history,
             completeness_prune_scores, ko_model, ko_ghost, ko_more>>

vars == <<cp_vars, ko_vars>>

\* ------------------------------------------------------------- helpers
Abs(x) == IF x < 0 THEN -x ELSE x

Range(s) == {s[i] : i \in DOMAIN s}

\* A dictionary that has not been created yet.
NoScores == <<>>

\* ------------------------------------------ threshold-for-size (tensor_ops)
\* The scores of ps in descending order of absolute value are never built;
\* the value at position edge_count of that order is the one value v with
\* fewer than edge_count scores strictly above it and at least edge_count
\* scores at or above it.
prune_scores_threshold(ps, edge_count) ==
    CHOOSE v \in {Abs(ps[e]) : e \in DOMAIN ps} :
        /\ Cardinality({e \in DOMAIN ps : Abs(ps[e]) > v}) < edge_count
        /\ Cardinality({e \in DOMAIN ps : Abs(ps[e]) >= v}) >= edge_count

\* --------------------------------------------- circuit_probing_prune_scores
\* One element of the circuit_sizes argument: the literal "true_size", an
\* int, or a value of another type (a float) that fails isinstance(size, int).
SizeArgs ==
    {[kind |-> "true_size", val |-> 0]}
        \cup {[kind |-> "int", val |-> n] : n \in 0..NumEdges}
        \cup {[kind |-> "float", val |-> 1]}

\* task.true_edge_count: <<>> is None (task.true_edges is None), <<n>> is n.
TrueEdgeCounts == {<<>>} \cup {<<n>> : n \in 0..NumEdges}

\* Lines 32-37: the loop that resolves and asserts each size.  The result is
\* [ok, sizes]: ok is FALSE as soon as one assertion of the loop fails.
RECURSIVE ResolveSizes(_, _)
ResolveSizes(cs, tec) ==
    IF cs = <<>> THEN [ok |-> TRUE, sizes |-> <<>>]
    ELSE
        LET rest == ResolveSizes(SubSeq(cs, 1, Len(cs) - 1), tec)
            size == cs[Len(cs)]
        IN  IF ~rest.ok THEN rest
            ELSE IF size.kind = "true_size"
                 THEN IF tec = <<>>
                      THEN [ok |-> FALSE, sizes |-> <<>>]
                      ELSE IF tec[1] > 0
                           THEN [ok |-> TRUE, sizes |-> Append(rest.sizes, tec[1])]
                           ELSE [ok |-> FALSE, sizes |-> <<>>]
                 ELSE IF size.kind = "int" /\ size.val > 0
                      THEN [ok |-> TRUE, sizes |-> Append(rest.sizes, size.val)]
                      ELSE [ok |-> FALSE, sizes |-> <<>>]

\* Line 38: assert len(set(sizes)) == len(sizes)
DistinctSizesNoCheck(sizes) == TRUE

DistinctSizes(sizes) == Cardinality(Range(sizes)) = Len(sizes)

\* Line 40: sorted(sizes), ascending (insertion of the last element into the
\* sorted prefix).
SortedNoSort(s) == s

RECURSIVE Insert(_, _)
Insert(s, x) ==
    IF s = <<>> THEN <<x>>
    ELSE IF x < s[1] THEN <<x>> \o s
         ELSE <<s[1]>> \o Insert(Tail(s), x)

RECURSIVE Sorted(_)
Sorted(s) ==
    IF s = <<>> THEN <<>>
    ELSE Insert(Sorted(SubSeq(s, 1, Len(s) - 1)), s[Len(s)])

\* Line 65: score = len(sorted_circuit_sizes) - size_idx   (size_idx from 0)
ScoreZeroBased(n, idx) == n - idx - 1

Score(n, idx) == n - idx

\* Lines 66-70: the merge of one size's scores into prune_scores.
MergeOverwrite(curr_ps, new_ps, threshold, score) ==
    [e \in Edges |-> IF new_ps[e] >= threshold THEN score ELSE curr_ps[e]]

Merge(curr_ps, new_ps, threshold, score) ==
    [e \in Edges |->
        IF new_ps[e] >= threshold /\ curr_ps[e] = 0 THEN score ELSE curr_ps[e]]

\* Lines 31-42.
CPValidate ==
    /\ cp_pc = "start"
    /\ LET r == ResolveSizes(circuit_sizes, true_edge_count)
       IN  IF r.ok /\ DistinctSizes(r.sizes) /\ Len(r.sizes) = Len(circuit_sizes)
           THEN /\ sorted_circuit_sizes' = Sorted(r.sizes)
                /\ prune_scores' = [e \in Edges |-> 0]
                /\ cp_pc' = "loop"
           ELSE /\ cp_pc' = "assert_sizes"
                /\ UNCHANGED <<sorted_circuit_sizes, prune_scores>>
    /\ UNCHANGED <<circuit_sizes, true_edge_count, size_idx, selected, trainings>>
    /\ UNCHANGED ko_vars

\* What subnetwork_probing_prune_scores (lines 48-62) can return for one size:
\* a score per edge.  A result with a negative entry only matters through the
\* assertion of line 63, so one such result per edge stands for them all.
NonNegResults == [Edges -> 0..MaxScore]

NegResults == {[e \in Edges |-> IF e = bad THEN -1 ELSE 0] : bad \in Edges}

\* Lines 45-70: one iteration of the loop over the sorted sizes, when the
\* assertion of line 63 holds.
CPStep ==
    /\ cp_pc = "loop"
    /\ size_idx < Len(sorted_circuit_sizes)
    /\ \E new_ps \in NonNegResults :
        LET size == sorted_circuit_sizes[size_idx + 1]
            threshold == prune_scores_threshold(new_ps, size)
            score == Score(Len(sorted_circuit_sizes), size_idx)
        IN  /\ prune_scores' = Merge(prune_scores, new_ps, threshold, score)
            /\ selected' =
                   [e \in Edges |->
                       IF new_ps[e] >= threshold
                       THEN selected[e] \cup {size}
                       ELSE selected[e]]
    /\ trainings' = trainings + 1
    /\ size_idx' = size_idx + 1
    /\ UNCHANGED <<circuit_sizes, true_edge_count, sorted_circuit_sizes, cp_pc>>
    /\ UNCHANGED ko_vars

\* Lines 45-63: an iteration whose training result fails the assertion of
\* line 63.
CPStepAssert ==
    /\ cp_pc = "loop"
    /\ size_idx < Len(sorted_circuit_sizes)
    /\ \E new_ps \in NegResults :
        /\ \E e \in Edges : new_ps[e] < 0
        /\ cp_pc' = "assert_scores"
    /\ trainings' = trainings + 1
    /\ UNCHANGED <<circuit_sizes, true_edge_count, sorted_circuit_sizes,
                   size_idx, prune_scores, selected>>
    /\ UNCHANGED ko_vars

\* Line 71.
CPReturn ==
    /\ cp_pc = "loop"
    /\ size_idx = Len(sorted_circuit_sizes)
    /\ cp_pc' = "done"
    /\ UNCHANGED <<circuit_sizes, true_edge_count, sorted_circuit_sizes,
                   size_idx, prune_scores, selected, trainings>>
    /\ UNCHANGED ko_vars

\* ------------------------------- train_same_under_knockout_prune_scores
\* The test loader yields the same batches, in the same order, every epoch;
\* a batch is named by its key.
BatchKeys == 1..NumBatches

epochs == MaxEpochs

\* The batch keys of a task's loaders: a key is a hash of the batch's content,
\* so the train loader's batches have other keys than the test loader's.
LoaderKeys(loader) ==
    IF loader = "test" THEN BatchKeys ELSE {NumBatches + k : k \in BatchKeys}

\* Line 95: the loader whose batches are recorded, task.test_loader, which is
\* also the loader line 113 iterates.
CachedLoaderTrain == "train"

CachedLoader == "test"

\* utils/graph_utils.batch_src_outs: one recorded activation per batch key of
\* the loader (the activation of batch k is named k).
batch_src_outs(loader) == [k \in LoaderKeys(loader) |-> k]

\* utils/graph_utils.set_all_masks: every mask of every module gets val.
set_all_masks(val) == [e \in Edges |-> val]

\* The three mode scopes of utils/graph_utils as they act on the model: each
\* enter sets its flag; each exit, reached on normal exit and on an exception
\* alike, clears it.
NoModes == [train_mask |-> FALSE, patch |-> FALSE, mask_fn |-> FALSE]

train_mask_mode_enter(m) == [m EXCEPT !.train_mask = TRUE]

train_mask_mode_exit(m) == [m EXCEPT !.train_mask = FALSE]

patch_mode_enter(m) == [m EXCEPT !.patch = TRUE]

patch_mode_exit(m) == [m EXCEPT !.patch = FALSE]

mask_fn_mode_enter(m) == [m EXCEPT !.mask_fn = TRUE]

mask_fn_mode_exit(m) == [m EXCEPT !.mask_fn = FALSE]

NoCount == [train_mask |-> 0, patch |-> 0, mask_fn |-> 0]

NoScopes == [entered |-> NoCount, exited |-> NoCount]

\* Line 98: with train_mask_mode(model) as patch_masks
WithTrainEnter(m) == train_mask_mode_enter(m)

WithTrainExit(m) == train_mask_mode_exit(m)

\* Line 115: with patch_mode(model, patches), mask_fn_mode(model, mask_fn):
\* entered left to right, exited right to left.
WithBatchEnter(m) == mask_fn_mode_enter(patch_mode_enter(m))

WithBatchExitLeaksPatchMode(m) == mask_fn_mode_exit(m)

WithBatchExit(m) == patch_mode_exit(mask_fn_mode_exit(m))

\* Line 92.
NTarget(size) == size \div TargetDivisor

\* Line 103: the boolean copy of the masks that encodes the circuit.
CircMasksNoAbs(ps, threshold) == {e \in Edges : ps[e] >= threshold}

CircMasks(ps, threshold) == {e \in Edges : Abs(ps[e]) >= threshold}

\* Lines 121-123 and 129-131:
\*     t.where(circ, patch.data, t.full_like(patch.data, val), out=patch.data)
ForceInverted(m, circ, val) == [e \in Edges |-> IF e \in circ THEN val ELSE m[e]]

ForceDiscarded(m, circ, val) == m

ForceOutOfCircuit(m, circ, val) ==
    [e \in Edges |-> IF e \in circ THEN m[e] ELSE val]

\* Line 139: t.relu(knockouts_samples.sum() - n_target) / n_target, in float
\* arithmetic: x / 0 is inf for x > 0 and nan for x = 0.  A finite value is
\* kept as the fraction num / den.
RegTerm(open_sum, target) ==
    LET relu == IF open_sum - target > 0 THEN open_sum - target ELSE 0
    IN  IF target = 0
        THEN [kind |-> IF relu = 0 THEN "nan" ELSE "inf", num |-> relu, den |-> 0]
        ELSE [kind |-> "num", num |-> relu, den |-> target]

NoTerm == [kind |-> "none", num |-> 0, den |-> 0]

\* Line 142: loss = kl_div_term + reg_term * regularize_lambda
Loss(kl, reg) ==
    IF kl = "finite" /\ reg.kind = "num" THEN "finite" ELSE "nonfinite"

\* Lines 119-145: the statements of one training step, in program order.
StepOrderOptimEarly ==
    <<"force_all", "fwd_circuit", "force_none", "optim", "fwd_model", "reg",
      "backward">>

StepOrder ==
    <<"force_all", "fwd_circuit", "force_none", "fwd_model", "reg",
      "backward", "optim">>

StepPcs == {"force_all", "fwd_circuit", "force_none", "fwd_model", "reg",
            "backward", "optim"}

NextPc(p) ==
    LET i == CHOOSE j \in DOMAIN StepOrder : StepOrder[j] = p
    IN  IF i = Len(StepOrder) THEN "step_end" ELSE StepOrder[i + 1]

\* Line 145: what optim.step() may do to the masks.  Adam's update of a mask
\* is abstracted to a step of 0 or 1, and a mask drifts at most MaxDrift away
\* from the value it was last set to (99, -init_mask_val or -99).
SetPoint(v) ==
    IF v >= PatchAll THEN PatchAll
    ELSE IF v >= -init_mask_val THEN -init_mask_val
    ELSE PatchNone

OptimUpdates(m) ==
    {[e \in Edges |-> m[e] + d[e]] : d \in
        {dd \in [Edges -> 0..1] :
            \A e \in Edges : m[e] + dd[e] - SetPoint(m[e]) <= MaxDrift}}

Bump(c, mode) == [c EXCEPT ![mode] = @ + 1]

NoHistory == [loss |-> 0, kl_div |-> 0, reg |-> 0]

\* Lines 90-105: threshold, n_target, the corrupted activations, the
\* train-mask scope, and the circuit's boolean masks.
KOSetup ==
    /\ ko_pc = "start"
    /\ circuit_threshold' = prune_scores_threshold(algo_ps, circuit_size)
    /\ n_target' = NTarget(circuit_size)
    /\ corrupt_src_outs' = batch_src_outs(CachedLoader)
    /\ modes' = WithTrainEnter(modes)
    /\ scope_count' = [scope_count EXCEPT !.entered = Bump(@, "train_mask")]
    /\ masks' = set_all_masks(0)
    /\ circ_masks' = CircMasks(algo_ps, circuit_threshold')
    /\ circ_at_setup' = circ_masks'
    /\ actual_circuit_size' = Cardinality(circ_masks')
    /\ ko_pc' = "init_masks"
    /\ UNCHANGED <<ko_args, ko_loop, ko_terms, history,
                   completeness_prune_scores, patches, step_no, step_log,
                   pre_force, seen_circuit, seen_model, last_optim_loss, nonfinite_at>>
    /\ UNCHANGED cp_vars
    /\ UNCHANGED ko_more

\* Line 108: the value every mask is set to before the optimizer is created.
FreshMaskValPositive == init_mask_val

FreshMaskVal == -init_mask_val

\* Lines 108-112: fresh masks, the optimizer, the head of the epoch loop.
\* algo_ps and circuit_threshold are not read after line 103, circuit_size is
\* not read after line 105, and they are dropped.
KOInitMasks ==
    /\ ko_pc = "init_masks"
    /\ masks' = set_all_masks(FreshMaskVal)
    /\ algo_ps' = NoScores
    /\ circuit_size' = 0
    /\ circuit_threshold' = 0
    /\ epoch' = 0
    /\ batch_i' = 0
    /\ ko_pc' = IF epochs > 0 THEN "batch" ELSE "plot"
    /\ UNCHANGED <<n_target, corrupt_src_outs, circ_masks,
                   actual_circuit_size, circ_at_setup, ko_terms, history,
                   completeness_prune_scores, modes, patches, ko_ghost>>
    /\ UNCHANGED cp_vars
    /\ UNCHANGED ko_more

\* Lines 113-117: the next batch, its patches, the two per-batch scopes.
\* A key that was not recorded is a KeyError (KORaise).
KOEnterBatch ==
    /\ ko_pc = "batch"
    /\ LET key == batch_i + 1
       IN  /\ key \in DOMAIN corrupt_src_outs
           /\ patches' = corrupt_src_outs[key]
    /\ modes' = WithBatchEnter(modes)
    /\ scope_count' =
           [scope_count EXCEPT !.entered = Bump(Bump(@, "patch"), "mask_fn")]
    /\ step_no' = step_no + 1
    /\ step_log' = <<>>
    /\ pre_force' = masks
    /\ seen_circuit' = NoScores
    /\ seen_model' = NoScores
    /\ ko_pc' = StepOrder[1]
    /\ UNCHANGED <<ko_args, ko_setup, ko_loop, ko_terms, history,
                   completeness_prune_scores, masks, last_optim_loss, nonfinite_at>>
    /\ UNCHANGED cp_vars
    /\ UNCHANGED ko_more

\* Lines 119-123: patch all the edges not in the circuit.
KOForceAll ==
    /\ ko_pc = "force_all"
    /\ masks' = ForceOutOfCircuit(masks, circ_masks, PatchAll)
    /\ step_log' = Append(step_log, "force_all")
    /\ ko_pc' = NextPc("force_all")
    /\ UNCHANGED <<ko_args, ko_setup, ko_loop, ko_terms, history,
                   completeness_prune_scores, modes, patches, scope_count,
                   step_no, pre_force, seen_circuit, seen_model,
                   last_optim_loss, nonfinite_at>>
    /\ UNCHANGED cp_vars
    /\ UNCHANGED ko_more

\* Lines 124-125: the forward pass that yields circuit_logprobs.
KOForwardCircuit ==
    /\ ko_pc = "fwd_circuit"
    /\ seen_circuit' = masks
    /\ step_log' = Append(step_log, "fwd_circuit")
    /\ ko_pc' = NextPc("fwd_circuit")
    /\ UNCHANGED <<ko_args, ko_setup, ko_loop, ko_terms, history,
                   completeness_prune_scores, ko_model, scope_count, step_no,
                   pre_force, seen_model, last_optim_loss, nonfinite_at>>
    /\ UNCHANGED cp_vars
    /\ UNCHANGED ko_more

\* Lines 127-131: don't patch the edges not in the circuit.
KOForceNone ==
    /\ ko_pc = "force_none"
    /\ masks' = ForceOutOfCircuit(masks, circ_masks, PatchNone)
    /\ step_log' = Append(step_log, "force_none")
    /\ ko_pc' = NextPc("force_none")
    /\ UNCHANGED <<ko_args, ko_setup, ko_loop, ko_terms, history,
                   completeness_prune_scores, modes, patches, scope_count,
                   step_no, pre_force, seen_circuit, seen_model,
                   last_optim_loss, nonfinite_at>>
    /\ UNCHANGED cp_vars
    /\ UNCHANGED ko_more

\* Lines 132-135: the forward pass that yields model_logprobs, and the KL
\* term, which may or may not come out finite.
KOForwardModel ==
    /\ ko_pc = "fwd_model"
    /\ seen_model' = masks
    /\ \E kl \in {"finite", "nonfinite"} : kl_div_term' = kl
    /\ history' = [history EXCEPT !.kl_div = @ + 1]
    /\ step_log' = Append(step_log, "fwd_model")
    /\ ko_pc' = NextPc("fwd_model")
    /\ UNCHANGED <<ko_args, ko_setup, ko_loop, open_knockouts, reg_term, loss,
                   completeness_prune_scores, ko_model, scope_count, step_no,
                   pre_force, seen_circuit, last_optim_loss, nonfinite_at>>
    /\ UNCHANGED cp_vars
    /\ UNCHANGED ko_more

\* Lines 137-142: the sampled count of open masks, the regularization term
\* and the loss.  kl_div_term is not read after line 142.
KOReg ==
    /\ ko_pc = "reg"
    /\ open_knockouts' \in 0..NumEdges
    /\ reg_term' = RegTerm(open_knockouts', n_target)
    /\ loss' = Loss(kl_div_term, reg_term')
    /\ kl_div_term' = "none"
    /\ nonfinite_at' =
           IF loss' = "nonfinite" /\ nonfinite_at = 0 THEN step_no
           ELSE nonfinite_at
    /\ history' = [history EXCEPT !.reg = @ + 1]
    /\ ko_pc' = NextPc("reg")
    /\ UNCHANGED <<ko_args, ko_setup, ko_loop, completeness_prune_scores,
                   ko_model, scope_count, step_no, step_log, pre_force,
                   seen_circuit, seen_model, last_optim_loss>>
    /\ UNCHANGED cp_vars
    /\ UNCHANGED ko_more

\* Lines 143-144: loss.backward() and the loss history.
KOBackward ==
    /\ ko_pc = "backward"
    /\ history' = [history EXCEPT !.loss = @ + 1]
    /\ step_log' = Append(step_log, "backward")
    /\ ko_pc' = NextPc("backward")
    /\ UNCHANGED <<ko_args, ko_setup, ko_loop, ko_terms,
                   completeness_prune_scores, ko_model, scope_count, step_no,
                   pre_force, seen_circuit, seen_model, last_optim_loss,
                   nonfinite_at>>
    /\ UNCHANGED cp_vars
    /\ UNCHANGED ko_more

\* Line 145: optim.step().  The step's terms are not read again before the
\* next step assigns them, and are dropped.
KOOptimStep ==
    /\ ko_pc = "optim"
    /\ masks' \in OptimUpdates(masks)
    /\ last_optim_loss' = loss
    /\ step_log' = Append(step_log, "optim")
    /\ open_knockouts' = 0
    /\ reg_term' = NoTerm
    /\ loss' = "none"
    /\ pre_force' = NoScores
    /\ seen_circuit' = NoScores
    /\ seen_model' = NoScores
    /\ ko_pc' = NextPc("optim")
    /\ UNCHANGED <<ko_args, ko_setup, ko_loop, kl_div_term, history,
                   completeness_prune_scores, modes, patches, scope_count,
                   step_no, nonfinite_at>>
    /\ optim_steps' = optim_steps + 1
    /\ UNCHANGED <<ko_fwd, ko_outer, masks_at_exit>>
    /\ UNCHANGED cp_vars

\* Line 113: whether the loader has a batch after the one at position bi
\* (positions from 0).
MoreBatchesSkipLast(bi) == bi + 2 < NumBatches

MoreBatches(bi) == bi + 1 < NumBatches

\* The end of the with block of line 115, and the loop heads of lines 113
\* and 110.
KOExitBatch ==
    /\ ko_pc = "step_end"
    /\ modes' = WithBatchExit(modes)
    /\ scope_count' =
           [scope_count EXCEPT !.exited = Bump(Bump(@, "mask_fn"), "patch")]
    /\ patches' = 0
    /\ kl_div_term' = "none"
    /\ open_knockouts' = 0
    /\ reg_term' = NoTerm
    /\ loss' = "none"
    /\ IF MoreBatches(batch_i)
       THEN /\ batch_i' = batch_i + 1
            /\ epoch' = epoch
            /\ ko_pc' = "batch"
       ELSE /\ batch_i' = 0
            /\ epoch' = epoch + 1
            /\ ko_pc' = IF epoch + 1 < epochs THEN "batch" ELSE "plot"
    /\ step_log' = <<>>
    /\ pre_force' = NoScores
    /\ seen_circuit' = NoScores
    /\ seen_model' = NoScores
    /\ UNCHANGED <<ko_args, ko_setup, history, completeness_prune_scores,
                   masks, step_no, last_optim_loss, nonfinite_at>>
    /\ UNCHANGED cp_vars
    /\ UNCHANGED ko_more

\* Lines 147-154: the figure, then the end of the with block of line 98.
KOPlot ==
    /\ ko_pc = "plot"
    /\ modes' = WithTrainExit(modes)
    /\ scope_count' = [scope_count EXCEPT !.exited = Bump(@, "train_mask")]
    /\ ko_pc' = "return"
    /\ masks_at_exit' = masks
    /\ UNCHANGED <<ko_args, ko_setup, ko_loop, ko_terms, history,
                   completeness_prune_scores, masks, patches, step_no,
                   step_log, pre_force, seen_circuit, seen_model,
                   last_optim_loss, nonfinite_at>>
    /\ UNCHANGED <<ko_fwd, ko_outer, optim_steps>>
    /\ UNCHANGED cp_vars

\* Line 158, patch_mask.detach().clone(): whether a returned tensor shares its
\* storage with the model's mask.  clone() allocates new storage; detach()
\* alone would not.
ReturnedSharesDetachOnly == TRUE

ReturnedShares == FALSE

\* What a write of new_masks into the model does to a dictionary returned
\* earlier by line 159.
AfterMaskWrite(returned, new_masks) ==
    IF ReturnedShares THEN new_masks ELSE returned

\* Lines 156-159: the detached copy of the masks that is returned.
KOReturn ==
    /\ ko_pc = "return"
    /\ completeness_prune_scores' = masks
    /\ ko_pc' = "done"
    /\ UNCHANGED <<ko_args, ko_setup, ko_loop, ko_terms, history, ko_model,
                   ko_ghost>>
    /\ UNCHANGED cp_vars
    /\ UNCHANGED ko_more

\* An exception raised by a statement of the function (the threshold, a
\* forward pass, backward, the optimizer step, the figure): every with block
\* that encloses the statement runs its exit on the way out.
InBatchScopes == StepPcs \cup {"step_end"}

InTrainScope ==
    InBatchScopes \cup {"next_setup", "later_call", "init_masks", "batch", "plot"}

KORaise ==
    /\ ko_pc \in InTrainScope \cup {"start"}
    /\ IF ko_pc = "start"
       THEN UNCHANGED <<modes, scope_count>>
       ELSE IF ko_pc \in InBatchScopes
       THEN /\ modes' = WithTrainExit(WithBatchExit(modes))
            /\ scope_count' =
                   [scope_count EXCEPT
                       !.exited = Bump(Bump(Bump(@, "mask_fn"), "patch"),
                                       "train_mask")]
       ELSE /\ modes' = WithTrainExit(modes)
            /\ scope_count' =
                   [scope_count EXCEPT !.exited = Bump(@, "train_mask")]
    /\ ko_pc' = "raised"
    /\ UNCHANGED <<ko_args, ko_setup, ko_loop, ko_terms, history,
                   completeness_prune_scores, masks, patches, step_no,
                   step_log, pre_force, seen_circuit, seen_model,
                   last_optim_loss, nonfinite_at>>
    /\ UNCHANGED cp_vars
    /\ UNCHANGED ko_more

\* ------------------------------------------- train_same_under_knockouts
\* The items of task_prune_scores in the order of the two nested loops of
\* lines 41 and 49: item i is one (task, algorithm) pair and its key.
Pairs == 1..NumPairs

\* Lines 65-66 for the call that returned, then the next item (lines 49-56) and
\* the part of its call that does not read its arguments: the corrupted
\* activations (line 95), the train-mask scope (line 98) and line 100, which
\* writes the masks of the model.  The locals of the new call start over.  Only
\* the keys of the stored results are kept: no later line reads their values.
KONextCall ==
    /\ ko_pc = "done"
    /\ pair_idx < NumPairs
    /\ task_completeness_scores' = task_completeness_scores \cup {pair_idx}
    /\ pair_idx' = pair_idx + 1
    /\ corrupt_src_outs' = batch_src_outs(CachedLoader)
    /\ modes' = WithTrainEnter(modes)
    /\ scope_count' = [NoScopes EXCEPT !.entered = Bump(@, "train_mask")]
    /\ masks' = set_all_masks(0)
    /\ completeness_prune_scores' = NoScores
    /\ masks_at_exit' = NoScores
    /\ epoch' = 0
    /\ batch_i' = 0
    /\ history' = NoHistory
    /\ step_no' = 0
    /\ optim_steps' = 0
    /\ last_optim_loss' = "none"
    /\ nonfinite_at' = 0
    /\ ko_pc' = "next_setup"
    /\ UNCHANGED <<ko_args, circuit_threshold, n_target, circ_masks,
                   actual_circuit_size, circ_at_setup, ko_terms, patches,
                   step_log, pre_force, seen_circuit, seen_model>>
    /\ UNCHANGED ko_fwd
    /\ UNCHANGED cp_vars

\* Lines 90, 92 and 103-105 of that call, with the prune scores and the
\* true_edge_count of the item it is called for.
KONextThreshold ==
    /\ ko_pc = "next_setup"
    /\ \E ps \in [Edges -> -MaxScore..MaxScore], size \in 1..NumEdges :
           /\ algo_ps' = ps
           /\ circuit_size' = size
    /\ circuit_threshold' = prune_scores_threshold(algo_ps', circuit_size')
    /\ n_target' = NTarget(circuit_size')
    /\ circ_masks' = CircMasks(algo_ps', circuit_threshold')
    /\ circ_at_setup' = circ_masks'
    /\ actual_circuit_size' = Cardinality(circ_masks')
    /\ ko_pc' = "init_masks"
    /\ UNCHANGED <<corrupt_src_outs, ko_loop, ko_terms, history,
                   completeness_prune_scores, ko_model, ko_ghost>>
    /\ UNCHANGED <<ko_fwd, ko_outer, masks_at_exit, optim_steps>>
    /\ UNCHANGED cp_vars

\* Lines 65-67 for the last item: its result is stored and the dictionary of
\* all results is returned.
KOOuterReturn ==
    /\ ko_pc = "done"
    /\ pair_idx = NumPairs
    /\ task_completeness_scores' = task_completeness_scores \cup {pair_idx}
    /\ ko_pc' = "outer_done"
    /\ UNCHANGED <<ko_args, ko_setup, ko_loop, ko_terms, history,
                   completeness_prune_scores, ko_model, ko_ghost>>
    /\ UNCHANGED <<ko_fwd, pair_idx, masks_at_exit, optim_steps>>
    /\ UNCHANGED cp_vars

\* A later call of train_same_under_knockout_prune_scores on the same model,
\* after train_same_under_knockouts has returned, as far as its first write to
\* the masks: lines 95, 98 and 100.  The dictionary returned by the last call
\* is still held by the caller.
KOLaterCall ==
    /\ ko_pc = "outer_done"
    /\ corrupt_src_outs' = batch_src_outs(CachedLoader)
    /\ modes' = WithTrainEnter(modes)
    /\ scope_count' = [NoScopes EXCEPT !.entered = Bump(@, "train_mask")]
    /\ masks' = set_all_masks(0)
    /\ completeness_prune_scores' =
           AfterMaskWrite(completeness_prune_scores, masks')
    /\ history' = NoHistory
    /\ step_no' = 0
    /\ optim_steps' = 0
    /\ ko_pc' = "later_call"
    /\ UNCHANGED <<ko_args, circuit_threshold, n_target, circ_masks,
                   actual_circuit_size, circ_at_setup, ko_loop, ko_terms,
                   patches, step_log, pre_force, seen_circuit, seen_model,
                   last_optim_loss, nonfinite_at>>
    /\ UNCHANGED <<ko_fwd, ko_outer, masks_at_exit>>
    /\ UNCHANGED cp_vars

\* ------------------------------------------------- the regularization term
\* Lines 92 and 139 applied to one circuit size and one count of open
\* knockouts (knockouts_samples.sum(), line 138).
RegApply ==
    /\ ko_pc = "reg_only"
    /\ n_target' = NTarget(circuit_size)
    /\ reg_term' = RegTerm(open_knockouts, n_target')
    /\ ko_pc' = "reg_done"
    /\ UNCHANGED <<ko_args, circuit_threshold, corrupt_src_outs, circ_masks,
                   actual_circuit_size, circ_at_setup, ko_loop, kl_div_term,
                   open_knockouts, loss, history, completeness_prune_scores,
                   ko_model, ko_ghost>>
    /\ UNCHANGED cp_vars
    /\ UNCHANGED ko_more

\* -------------------------------------------------- patch-mode execution
\* The value a forward pass on the clean input of batch key gives the source
\* of edge e, and the value recorded for it in the corrupted activations p of
\* a batch.  The values are names: all that matters is that they differ.  The
\* edges are taken one by one; how the value of one edge feeds the source of
\* another is not modelled.
CleanAct(key, e) == 2 * (key * NumEdges + e)

CorruptAct(p, e) == 2 * (p * NumEdges + e) + 1

\* The values, in tenths, a hard-concrete gate can take at a logit that does
\* not saturate it: closed, open, and one value in between.
GateSamples == {0, 5, 10}

\* The mask values m, in tenths, that the forward pass applies.  Without a
\* mask function the mask itself is m.  The hard-concrete gate stretches the
\* sigmoid of the noisy logit to (-0.1, 1.1) and clips it to [0, 1]: at the
\* logit +99 it is 1 and at -99 it is 0 whatever the noise, and elsewhere it is
\* a sample.
Gates(fn, m) ==
    IF fn = "none"
    THEN {[e \in Edges |-> 10 * m[e]]}
    ELSE {g \in [Edges -> GateSamples] :
             \A e \in Edges :
                 /\ m[e] = PatchAll => g[e] = 10
                 /\ m[e] = PatchNone => g[e] = 0}

\* effective = clean * (1 - m) + patch * m, with m in tenths and the result in
\* tenths.
Interpolate(clean, patch, m) == clean * (10 - m) + patch * m

\* A forward pass in patch mode on the clean input of batch key, with the
\* patch source p and the gates g: the effective value of every edge.
PatchedForward(g, key, p) ==
    [e \in Edges |-> Interpolate(CleanAct(key, e), CorruptAct(p, e), g[e])]

\* A forward pass outside patch mode on the clean input of batch key, and one
\* on its corrupted input.
UnpatchedForward(key) == [e \in Edges |-> 10 * CleanAct(key, e)]

CorruptForward(key) == [e \in Edges |-> 10 * CorruptAct(key, e)]

\* Lines 119-123 or 127-131 on any masks and any circuit: the out-of-circuit
\* masks are forced to +99 or to -99.
PatchForce ==
    /\ ko_pc = "patch_ready"
    /\ \E val \in {PatchAll, PatchNone} :
           /\ masks' = ForceOutOfCircuit(masks, circ_masks, val)
           /\ step_log' =
                  <<IF val = PatchAll THEN "force_all" ELSE "force_none">>
    /\ ko_pc' = "patch_forced"
    /\ UNCHANGED <<ko_args, ko_setup, ko_loop, ko_terms, history,
                   completeness_prune_scores, modes, patches, scope_count,
                   step_no, pre_force, seen_circuit, seen_model,
                   last_optim_loss, nonfinite_at>>
    /\ UNCHANGED ko_more
    /\ UNCHANGED cp_vars

\* Line 124 or 132: model(batch.clean) inside patch_mode(model, patches) and
\* mask_fn_mode(model, mask_fn).
PatchForward ==
    /\ ko_pc \in {"patch_ready", "patch_forced"}
    /\ \E g \in Gates(mask_fn, masks) :
           edge_acts' = PatchedForward(g, batch_i + 1, patches)
    /\ ko_pc' = "patch_done"
    /\ UNCHANGED <<ko_args, ko_setup, ko_loop, ko_terms, history,
                   completeness_prune_scores, ko_model, ko_ghost>>
    /\ UNCHANGED <<mask_fn, ko_outer, masks_at_exit, optim_steps>>
    /\ UNCHANGED cp_vars

\* ------------------------------------------------------- specifications

\* The state of a procedure that is not running.
CPIdle ==
    /\ circuit_sizes = <<>>
    /\ true_edge_count = <<>>
    /\ cp_pc = "idle"
    /\ sorted_circuit_sizes = <<>>
    /\ size_idx = 0
    /\ prune_scores = NoScores
    /\ selected = [e \in Edges |-> {}]
    /\ trainings = 0

KOLocals ==
    /\ circuit_threshold = 0
    /\ n_target = 0
    /\ corrupt_src_outs = <<>>
    /\ circ_masks = {}
    /\ circ_at_setup = {}
    /\ actual_circuit_size = 0
    /\ epoch = 0
    /\ batch_i = 0
    /\ kl_div_term = "none"
    /\ open_knockouts = 0
    /\ reg_term = NoTerm
    /\ loss = "none"
    /\ history = NoHistory
    /\ completeness_prune_scores = NoScores
    /\ modes = NoModes
    /\ patches = 0
    /\ scope_count = NoScopes
    /\ step_no = 0
    /\ step_log = <<>>
    /\ pre_force = NoScores
    /\ seen_circuit = NoScores
    /\ seen_model = NoScores
    /\ last_optim_loss = "none"
    /\ nonfinite_at = 0
    /\ edge_acts = NoScores
    /\ masks_at_exit = NoScores
    /\ optim_steps = 0

\* The caller's side of a call: the default mask function of line 83, and the
\* first item of task_prune_scores with no result stored yet (lines 39-49).
KOCaller ==
    /\ mask_fn = "hard_concrete"
    /\ pair_idx = 1
    /\ task_completeness_scores = {}

KOIdle ==
    /\ algo_ps = NoScores
    /\ circuit_size = 0
    /\ ko_pc = "idle"
    /\ masks = set_all_masks(0)
    /\ KOLocals
    /\ KOCaller

RECURSIVE SeqsUpTo(_, _)
SeqsUpTo(S, n) ==
    IF n = 0 THEN {<<>>}
    ELSE LET shorter == SeqsUpTo(S, n - 1)
         IN  shorter \cup {Append(s, x) : s \in shorter, x \in S}

CPInit ==
    /\ circuit_sizes \in SeqsUpTo(SizeArgs, MaxSizes)
    \* task.true_edge_count is read for a "true_size" entry only (line 35):
    \* the tasks of a list without one are all represented by the task with None.
    /\ true_edge_count \in
           IF \E i \in DOMAIN circuit_sizes : circuit_sizes[i].kind = "true_size"
           THEN TrueEdgeCounts ELSE {<<>>}
    /\ cp_pc = "start"
    /\ sorted_circuit_sizes = <<>>
    /\ size_idx = 0
    /\ prune_scores = NoScores
    /\ selected = [e \in Edges |-> {}]
    /\ trainings = 0
    /\ KOIdle

CPNext == CPValidate \/ CPStep \/ CPStepAssert \/ CPReturn

SpecCP == CPInit /\ [][CPNext]_vars

\* The masks the model holds when the call starts: whatever an earlier use of
\* the model left there.
PriorMasks == {set_all_masks(v) : v \in 0..1}

KOInit ==
    /\ algo_ps \in [Edges -> -MaxScore..MaxScore]
    /\ circuit_size \in 1..NumEdges
    /\ ko_pc = "start"
    /\ masks \in PriorMasks
    /\ KOLocals
    /\ KOCaller
    /\ CPIdle

KONext ==
    \/ KOSetup \/ KOInitMasks \/ KOEnterBatch
    \/ KOForceAll \/ KOForwardCircuit \/ KOForceNone \/ KOForwardModel
    \/ KOReg \/ KOBackward \/ KOOptimStep \/ KOExitBatch
    \/ KOPlot \/ KOReturn \/ KORaise
    \/ KONextCall \/ KONextThreshold \/ KOOuterReturn \/ KOLaterCall

SpecKO == KOInit /\ [][KONext]_vars

RegInit ==
    /\ algo_ps = NoScores
    /\ circuit_size \in 1..MaxCircuitSize
    /\ ko_pc = "reg_only"
    /\ masks = set_all_masks(0)
    /\ circuit_threshold = 0
    /\ n_target = 0
    /\ corrupt_src_outs = <<>>
    /\ circ_masks = {}
    /\ circ_at_setup = {}
    /\ actual_circuit_size = 0
    /\ epoch = 0
    /\ batch_i = 0
    /\ kl_div_term = "none"
    /\ open_knockouts \in 0..MaxKnockouts
    /\ reg_term = NoTerm
    /\ loss = "none"
    /\ history = NoHistory
    /\ completeness_prune_scores = NoScores
    /\ modes = NoModes
    /\ patches = 0
    /\ scope_count = NoScopes
    /\ step_no = 0
    /\ step_log = <<>>
    /\ pre_force = NoScores
    /\ seen_circuit = NoScores
    /\ seen_model = NoScores
    /\ last_optim_loss = "none"
    /\ nonfinite_at = 0
    /\ edge_acts = NoScores
    /\ masks_at_exit = NoScores
    /\ optim_steps = 0
    /\ KOCaller
    /\ CPIdle

SpecReg == RegInit /\ [][RegApply]_vars

\* The masks a forward pass in patch mode can meet: hard 0/1 masks when there
\* is no mask function, and for the hard-concrete gate the logits of a
\* training loop: fresh, forced to +99, forced to -99.
RawMasks(fn) ==
    IF fn = "none" THEN 0..1 ELSE {PatchNone, FreshMaskVal, PatchAll}

PatchInit ==
    /\ mask_fn \in {"none", "hard_concrete"}
    /\ masks \in [Edges -> RawMasks(mask_fn)]
    /\ circ_masks \in SUBSET Edges
    /\ circ_at_setup = circ_masks
    /\ batch_i \in 0..(NumBatches - 1)
    /\ corrupt_src_outs = batch_src_outs(CachedLoader)
    /\ patches = corrupt_src_outs[batch_i + 1]
    /\ modes = WithBatchEnter(WithTrainEnter(NoModes))
    /\ ko_pc = "patch_ready"
    /\ algo_ps = NoScores
    /\ circuit_size = 0
    /\ circuit_threshold = 0
    /\ n_target = 0
    /\ actual_circuit_size = Cardinality(circ_masks)
    /\ epoch = 0
    /\ kl_div_term = "none"
    /\ open_knockouts = 0
    /\ reg_term = NoTerm
    /\ loss = "none"
    /\ history = NoHistory
    /\ completeness_prune_scores = NoScores
    /\ scope_count = NoScopes
    /\ step_no = 0
    /\ step_log = <<>>
    /\ pre_force = NoScores
    /\ seen_circuit = NoScores
    /\ seen_model = NoScores
    /\ last_optim_loss = "none"
    /\ nonfinite_at = 0
    /\ edge_acts = NoScores
    /\ masks_at_exit = NoScores
    /\ optim_steps = 0
    /\ pair_idx = 1
    /\ task_completeness_scores = {}
    /\ CPIdle

PatchNext == PatchForce \/ PatchForward

SpecPatch == PatchInit /\ [][PatchNext]_vars

\* ------------------------------------------------ circuit probing: claims
CPCreated == cp_pc \in {"loop", "done", "assert_scores"}

\* The size a caller's entry stands for ("true_size" is the task's count).
RequestedSize(a) == IF a.kind = "true_size" THEN true_edge_count[1] ELSE a.val

RequestedSizes == {RequestedSize(circuit_sizes[i]) : i \in DOMAIN circuit_sizes}

\* How many requested sizes are smaller than k.
RankOf(k) == Cardinality({j \in RequestedSizes : j < k})

MinOf(S) == CHOOSE x \in S : \A y \in S : x <= y

\* C1: once an edge holds a non-zero score, no later pass of the loop over the
\* sizes changes it (first-found-wins): a step from a state where edge e has a
\* non-zero score leaves that score as it is.
C1_FirstFoundWins ==
    [][\A e \in Edges :
          (CPCreated /\ prune_scores[e] # 0) => prune_scores'[e] = prune_scores[e]]_vars

\* C1 witness: the run is over, and an edge scored in the first pass was above
\* the threshold again in a later pass and still holds the first pass's score.
C1_Witness ==
    /\ cp_pc = "done"
    /\ Len(sorted_circuit_sizes) >= 2
    /\ \E e \in Edges :
          /\ Cardinality(selected[e]) >= 2
          /\ prune_scores[e] = Len(sorted_circuit_sizes)

\* The size list the claim calls valid: every entry, "true_size" replaced by
\* the task's true edge count, is an integer > 0, and no two entries are equal.
ValidSizeList ==
    /\ \A i \in DOMAIN circuit_sizes :
          LET a == circuit_sizes[i]
          IN  /\ a.kind \in {"int", "true_size"}
              /\ a.kind = "true_size" => true_edge_count # <<>>
              /\ RequestedSize(a) > 0
    /\ \A i, j \in DOMAIN circuit_sizes :
          i # j => RequestedSize(circuit_sizes[i]) # RequestedSize(circuit_sizes[j])

\* C2: an invalid size list is rejected by an assertion before any training:
\* the call never gets past validation with one, and when the assertion fires
\* no prune score exists and no training has started.
C2_InvalidSizesRejected ==
    /\ ~ValidSizeList =>
          /\ cp_pc \in {"start", "assert_sizes"}
          /\ prune_scores = NoScores
          /\ trainings = 0
    /\ cp_pc = "assert_sizes" =>
          /\ ~ValidSizeList
          /\ prune_scores = NoScores
          /\ trainings = 0

\* C2 witness: a list holding both "true_size" and the integer equal to the
\* task's true edge count has been rejected.
C2_Witness ==
    /\ cp_pc = "assert_sizes"
    /\ true_edge_count # <<>>
    /\ true_edge_count[1] > 0
    /\ \E i, j \in DOMAIN circuit_sizes :
          /\ circuit_sizes[i].kind = "true_size"
          /\ circuit_sizes[j].kind = "int"
          /\ circuit_sizes[j].val = true_edge_count[1]

\* C4: the sizes are processed in ascending order whatever the caller's order,
\* the i-th smallest size (i from 0) gives score n - i, and so the scores are a
\* function of the set of requested sizes and of the per-size selections only:
\* every size trained so far is among the size_idx smallest requested sizes,
\* and every edge's score is n minus the rank of the smallest size that
\* selected it (0 when none did).
C4_AscendingScores ==
    CPCreated =>
        /\ \A e \in Edges : \A k \in selected[e] : RankOf(k) < size_idx
        /\ \A e \in Edges :
              prune_scores[e] =
                  IF selected[e] = {} THEN 0
                  ELSE Cardinality(RequestedSizes) - RankOf(MinOf(selected[e]))
        /\ \A e, f \in Edges :
              (selected[e] # {} /\ selected[f] # {}
                  /\ MinOf(selected[e]) < MinOf(selected[f]))
                  => prune_scores[e] > prune_scores[f]

\* C4 witness: the caller listed a larger size before a smaller one, the run
\* is over, and one edge was first selected at the smaller size and another at
\* the larger.
C4_Witness ==
    /\ cp_pc = "done"
    /\ Len(circuit_sizes) >= 2
    /\ RequestedSize(circuit_sizes[1]) > RequestedSize(circuit_sizes[2])
    /\ \E e, f \in Edges :
          /\ selected[e] # {} /\ selected[f] # {}
          /\ MinOf(selected[e]) < MinOf(selected[f])

\* ----------------------------------------- same-under-knockout: claims
OutOfCircuit == Edges \ circ_masks

\* Some set of exactly k edges lies strictly above all the other edges in
\* absolute score: no tie straddles the boundary of the top k.
ExactCutExists(ps, k) ==
    \E S \in SUBSET Edges :
        /\ Cardinality(S) = k
        /\ \A e \in S : \A f \in Edges \ S : Abs(ps[e]) > Abs(ps[f])

\* C3: the threshold for size k selects exactly k edges by |score| >= v,
\* except when scores tie across the boundary of the top k; then it selects
\* more than k, never fewer.
C3_ThresholdExact ==
    ko_pc = "init_masks" =>
        /\ actual_circuit_size >= circuit_size
        /\ ExactCutExists(algo_ps, circuit_size) =>
              actual_circuit_size = circuit_size
        /\ ~ExactCutExists(algo_ps, circuit_size) =>
              actual_circuit_size > circuit_size

\* C3 witness: a circuit smaller than the graph was cut exactly, and holds an
\* edge whose score is negative.
C3_Witness ==
    /\ ko_pc = "init_masks"
    /\ circuit_size < NumEdges
    /\ actual_circuit_size = circuit_size
    /\ \E e \in circ_masks : algo_ps[e] < 0

ClaimedStepOrder ==
    <<"force_all", "fwd_circuit", "force_none", "fwd_model", "backward", "optim">>

IsPrefix(s, t) == Len(s) <= Len(t) /\ SubSeq(t, 1, Len(s)) = s

\* C5: within one training step the mask forcings, the forward passes,
\* backward and the optimizer step happen in the order force +99, forward
\* (circuit), force -99, forward (model), backward, optim.step; each forward
\* pass sees the out-of-circuit masks at the value just forced and the
\* in-circuit masks as they were when the step began.
C5_StepOrder ==
    /\ IsPrefix(step_log, ClaimedStepOrder)
    /\ ko_pc = "step_end" => step_log = ClaimedStepOrder
    /\ seen_circuit # NoScores =>
          /\ \A e \in OutOfCircuit : seen_circuit[e] = PatchAll
          /\ \A e \in circ_masks : seen_circuit[e] = pre_force[e]
    /\ seen_model # NoScores =>
          /\ \A e \in OutOfCircuit : seen_model[e] = PatchNone
          /\ \A e \in circ_masks : seen_model[e] = pre_force[e]

\* C5 witness: a second or later step has run all six operations, with edges
\* on both sides of the circuit.
C5_Witness ==
    /\ ko_pc = "step_end"
    /\ step_no >= 2
    /\ step_log = ClaimedStepOrder
    /\ circ_masks # {}
    /\ OutOfCircuit # {}

\* C6 as stated: the forced values are undone before backward, so at backward
\* and at the optimizer step every mask holds the value it had before the
\* forcing, and no forced value is in a mask when the next step starts or in
\* the returned scores.
C6_ForcedValuesRestored ==
    /\ (ko_pc \in {"backward", "optim"} /\ pre_force # NoScores) =>
          \A e \in Edges : masks[e] = pre_force[e]
    /\ (ko_pc = "batch" /\ step_no > 0) =>
          \A e \in Edges : masks[e] \notin {PatchAll, PatchNone}
    /\ ko_pc = "done" =>
          \A e \in Edges : completeness_prune_scores[e] \notin {PatchAll, PatchNone}

\* C6 as amended: the forcing is never undone.  An out-of-circuit mask holds
\* +99 from the first forcing through the first forward pass, and -99 from the
\* second forcing through the second forward pass, backward and up to the
\* optimizer step; nothing but the optimizer touches it afterwards, so the
\* returned score of an out-of-circuit edge descends from the forced -99.
C6_ForcedValuesPersist ==
    /\ ko_pc = "fwd_circuit" => \A e \in OutOfCircuit : masks[e] = PatchAll
    /\ ko_pc \in {"fwd_model", "reg", "backward", "optim"} =>
          \A e \in OutOfCircuit : masks[e] = PatchNone
    /\ (ko_pc \in {"batch", "plot", "return"} /\ step_no > 0) =>
          \A e \in OutOfCircuit : SetPoint(masks[e]) = PatchNone
    /\ (ko_pc = "done" /\ step_no > 0) =>
          \A e \in OutOfCircuit :
              SetPoint(completeness_prune_scores[e]) = PatchNone

\* C6 witness: at the optimizer step of some batch an out-of-circuit mask holds
\* the forced -99, which is not the value it had before the forcing.
C6_Witness ==
    /\ ko_pc = "optim"
    /\ \E e \in OutOfCircuit :
          /\ masks[e] = PatchNone
          /\ pre_force[e] # PatchNone

\* C7: both forward passes of a step see the same values on the in-circuit
\* masks, the forcings leave every in-circuit mask as it was when the step
\* began, and the set of in-circuit edges is the one computed before the loop.
C7_InCircuitMasksKept ==
    /\ (seen_circuit # NoScores /\ seen_model # NoScores) =>
          \A e \in circ_masks : seen_circuit[e] = seen_model[e]
    /\ (ko_pc \in StepPcs /\ pre_force # NoScores) =>
          \A e \in circ_masks : masks[e] = pre_force[e]
    /\ ko_pc \notin {"start", "idle", "reg_only", "reg_done"} =>
          circ_masks = circ_at_setup

\* C7 witness: both forward passes of a later step have run, with edges on
\* both sides of the circuit and an in-circuit mask the optimizer has moved.
C7_Witness ==
    /\ ko_pc = "reg"
    /\ step_no >= 2
    /\ OutOfCircuit # {}
    /\ \E e \in circ_masks :
          /\ seen_model[e] # -init_mask_val
          /\ seen_model[e] = seen_circuit[e]

\* C8: the regularization term is a number for every circuit size >= 1 and
\* every open-knockout count >= 0, is zero whenever the count is at or below
\* n_target, and is positive only when the count exceeds n_target.
C8_RegTermWellDefined ==
    ko_pc = "reg_done" =>
        /\ reg_term.kind = "num"
        /\ open_knockouts <= n_target => reg_term.num = 0
        /\ reg_term.num > 0 => open_knockouts > n_target

\* C9: once a step's loss is non-finite the loop stops: no optimizer step is
\* taken with a non-finite loss, and no later batch is started.
C9_StopsOnNonFiniteLoss ==
    /\ last_optim_loss # "nonfinite"
    /\ nonfinite_at > 0 =>
          /\ step_no = nonfinite_at
          /\ ko_pc \in {"backward", "optim", "raised"}

ScopesClosed == {"return", "done", "raised", "outer_done"}

\* C10: the three mode scopes are bracketed and released: the train-mask
\* scope is entered at most once, the patch and mask-function scopes are
\* entered once per batch, inside it, and exited once per batch, and when the
\* function has returned or raised no mode is active on the model.
C10_ScopesReleased ==
    /\ ko_pc \in ScopesClosed => modes = NoModes
    /\ (modes.patch \/ modes.mask_fn) => modes.train_mask
    /\ modes.patch = (ko_pc \in InBatchScopes)
    /\ modes.mask_fn = (ko_pc \in InBatchScopes)
    /\ modes.train_mask = (ko_pc \in InTrainScope)
    /\ scope_count.entered.train_mask <= 1
    /\ scope_count.entered.patch = step_no
    /\ scope_count.entered.mask_fn = step_no
    /\ scope_count.exited.patch =
          (IF ko_pc \in InBatchScopes THEN step_no - 1 ELSE step_no)
    /\ scope_count.exited.mask_fn = scope_count.exited.patch
    /\ scope_count.exited.train_mask =
          (IF ko_pc \in ScopesClosed THEN scope_count.entered.train_mask ELSE 0)

\* C10 witness: an exception was raised inside the step of a second or later
\* batch, and every scope entered has been exited.
C10_Witness ==
    /\ ko_pc = "raised"
    /\ step_no >= 2
    /\ scope_count.entered.patch = step_no
    /\ scope_count.exited.patch = step_no
    /\ scope_count.exited.train_mask = 1
    /\ step_log # <<>>

\* C16: in the merged scores zero means exactly "never selected": every score
\* is an integer in 0..n (n the number of sizes), the merge writes 1..n only,
\* and after any number of passes an edge has score 0 if and only if it was
\* below the threshold in every pass so far.
C16_ZeroMeansNeverSelected ==
    CPCreated =>
        \A e \in Edges :
            /\ prune_scores[e] \in 0..Len(sorted_circuit_sizes)
            /\ prune_scores[e] = 0 <=> selected[e] = {}
            /\ selected[e] # {} =>
                  prune_scores[e] =
                      Len(sorted_circuit_sizes) - RankOf(MinOf(selected[e]))

\* C16 witness: the pass for the last of two or more sizes has run; one edge
\* was selected by it alone and holds the smallest score, 1, and another edge
\* was never selected and holds 0.
C16_Witness ==
    /\ cp_pc = "done"
    /\ Len(sorted_circuit_sizes) >= 2
    /\ \E e \in Edges :
          /\ selected[e] = {sorted_circuit_sizes[Len(sorted_circuit_sizes)]}
          /\ prune_scores[e] = 1
    /\ \E e \in Edges : selected[e] = {} /\ prune_scores[e] = 0

\* C17: the returned scores reproduce each requested size: for the sizes
\* k_1 < ... < k_n and every i, exactly k_i edges have a final score of
\* n - i + 1 or more.
C17_ScoresReproduceSizes ==
    cp_pc = "done" =>
        LET n == Len(sorted_circuit_sizes)
        IN  \A i \in 1..n :
                Cardinality({e \in Edges : prune_scores[e] >= n - i + 1})
                    = sorted_circuit_sizes[i]

\* C11: the interpolation is right at the extremes.  With m = 0 on every edge
\* the patched forward pass equals the unpatched one on the same input; with
\* m = 1 on every edge and the corrupted activations of the batch as patch
\* source it equals the forward pass on the corrupted input; after the
\* forcing to +99 every out-of-circuit edge carries its corrupted value, and
\* after the forcing to -99 every out-of-circuit edge carries its clean value.
C11_PatchExtremes ==
    ko_pc = "patch_done" =>
        LET key == batch_i + 1
        IN  /\ (mask_fn = "none" /\ \A e \in Edges : masks[e] = 0) =>
                  edge_acts = UnpatchedForward(key)
            /\ (mask_fn = "none" /\ \A e \in Edges : masks[e] = 1) =>
                  edge_acts = CorruptForward(key)
            /\ (mask_fn = "hard_concrete" /\ step_log = <<"force_all">>) =>
                  \A e \in OutOfCircuit :
                      edge_acts[e] = 10 * CorruptAct(key, e)
            /\ (mask_fn = "hard_concrete" /\ step_log = <<"force_none">>) =>
                  \A e \in OutOfCircuit :
                      edge_acts[e] = 10 * CleanAct(key, e)

\* C11 witness: a forward pass after the forcing to +99, with an out-of-circuit
\* edge that carries its corrupted value,
\* and an in-circuit edge that carries a mix of its two values.
C11_Witness ==
    /\ ko_pc = "patch_done"
    /\ mask_fn = "hard_concrete"
    /\ step_log = <<"force_all">>
    /\ \E e \in OutOfCircuit :
          edge_acts[e] = 10 * CorruptAct(batch_i + 1, e)
    /\ \E e \in circ_masks :
          /\ edge_acts[e] # 10 * CorruptAct(batch_i + 1, e)
          /\ edge_acts[e] # 10 * CleanAct(batch_i + 1, e)

\* C12: the cache of corrupted activations is filled before the first
\* training step and only read afterwards: no step of the training scope
\* changes it, the key of every batch the loop is about to use or is using was
\* recorded, and the patch source of a step is the recorded activation of its
\* batch.
C12_CacheReadOnly ==
    [][/\ ko_pc \in InTrainScope => corrupt_src_outs' = corrupt_src_outs
       /\ ko_pc' \in InBatchScopes \cup {"batch"} =>
              batch_i' + 1 \in DOMAIN corrupt_src_outs'
       /\ ko_pc' \in InBatchScopes =>
              patches' = corrupt_src_outs'[batch_i' + 1]]_vars

\* C12 witness: in the second epoch the last batch is looked up again and
\* finds the activation recorded for it before the loop.
C12_Witness ==
    /\ ko_pc \in StepPcs
    /\ epoch >= 1
    /\ batch_i + 1 = NumBatches
    /\ corrupt_src_outs = batch_src_outs("test")
    /\ patches = corrupt_src_outs[batch_i + 1]

\* C14: the returned dictionary is built after the train-mask scope has
\* exited, has one entry per mask of the model, each equal to the mask's value
\* when the loop ended, and keeps those values when a later call writes the
\* masks of the model.
C14_ReturnedIsDetachedCopy ==
    /\ ko_pc = "return" => ~modes.train_mask
    /\ ko_pc \in {"done", "outer_done", "later_call"} =>
          /\ DOMAIN completeness_prune_scores = Edges
          /\ completeness_prune_scores = masks_at_exit
    /\ ko_pc \in {"done", "outer_done"} => completeness_prune_scores = masks

\* C14 witness: a later call has overwritten the masks of the model, one of
\* which the optimizer had moved, and the dictionary returned before still
\* holds the trained values.
C14_Witness ==
    /\ ko_pc = "later_call"
    /\ masks = set_all_masks(0)
    /\ completeness_prune_scores = masks_at_exit
    /\ \E e \in circ_masks : completeness_prune_scores[e] > FreshMaskVal
    /\ \A e \in Edges : completeness_prune_scores[e] # 0

\* C15: when the optimizer is created and no step has run, every mask holds
\* -init_mask_val, whatever the masks held before the call and whatever the
\* prune scores of the algorithm; the prune scores are not read once the set of
\* in-circuit edges is computed.
C15_FreshMasks ==
    /\ (ko_pc = "batch" /\ step_no = 0) =>
          \A e \in Edges : masks[e] = -init_mask_val
    /\ ko_pc \in InBatchScopes \cup {"batch", "plot"} => algo_ps = NoScores

\* C15 witness: the second call on a model starts its loop with fresh masks,
\* after the first call left trained and forced values in them.
C15_Witness ==
    /\ ko_pc = "batch"
    /\ step_no = 0
    /\ pair_idx = 2
    /\ masks = set_all_masks(-init_mask_val)
    /\ OutOfCircuit # {}

\* The steps of a call other than an exception.
KOProceed ==
    \/ KOSetup \/ KOInitMasks \/ KOEnterBatch
    \/ KOForceAll \/ KOForwardCircuit \/ KOForceNone \/ KOForwardModel
    \/ KOReg \/ KOBackward \/ KOOptimStep \/ KOExitBatch
    \/ KOPlot \/ KOReturn
    \/ KONextCall \/ KONextThreshold \/ KOOuterReturn

\* C18: without an error a call runs epochs * (number of batches) steps and
\* then returns: a step can always be continued, the loop is left after
\* exactly that many steps, every completed step has taken one optimizer step
\* and appended one entry to each of the three histories, and
\* train_same_under_knockouts returns one result for every item of its input.
C18_StepsAndResults ==
    /\ ko_pc \notin {"outer_done", "later_call", "raised"} => ENABLED KOProceed
    /\ ko_pc \in {"plot", "return", "done", "outer_done"} =>
          step_no = epochs * NumBatches
    /\ ko_pc \in InBatchScopes =>
          /\ step_no = epoch * NumBatches + batch_i + 1
          /\ step_no <= epochs * NumBatches
    /\ ko_pc \in {"batch", "step_end", "plot", "return", "done", "outer_done"} =>
          /\ optim_steps = step_no
          /\ history.loss = step_no
          /\ history.kl_div = step_no
          /\ history.reg = step_no
    /\ ko_pc \in StepPcs => optim_steps = step_no - 1
    /\ ko_pc = "outer_done" => task_completeness_scores = Pairs
    /\ ko_pc \in (InTrainScope \ {"later_call"}) \cup {"start", "return", "done"} =>
          task_completeness_scores = 1..(pair_idx - 1)

\* C18 witness: the call for the last item has run all its steps and
\* train_same_under_knockouts has returned a result for every item.
C18_Witness ==
    /\ ko_pc = "outer_done"
    /\ NumPairs >= 2
    /\ task_completeness_scores = Pairs
    /\ step_no = epochs * NumBatches
    /\ optim_steps = step_no
    /\ history = [loss |-> step_no, kl_div |-> step_no, reg |-> step_no]

====
